---- MODULE Spec2Model ----
(***************************************************************************)
(* Roster reconciliation of the guild tracker bot (src/main.py): the       *)
(* SQLite store, the memoized verification call, the periodic sweep        *)
(* live_guild_check, the commands that change the roster and the display   *)
(* synchronizer DiscordUtils.update_list.                                  *)
(*                                                                         *)
(* The bot is one asyncio event loop.  A coroutine runs without            *)
(* interleaving from one await to the next; the variable `running` names   *)
(* the task that is inside such a synchronous section (or "none").         *)
(***************************************************************************)
EXTENDS Integers, Sequences, FiniteSets, TLC

VARIABLES
    servers,    \* table servers, rows in rowid order
    members,    \* table members, a set of rows
    messages,   \* table messages, a set of rows
    memo,       \* lru_cache of AQWUtils.check_aqw_guild
    platform,   \* the messages that exist in the list channels: id -> embed
    running,    \* the task that holds the event loop between two awaits
    sw,         \* the live_guild_check task: its locals and its position
    cmd,        \* the command task: its locals and its position
    ul,         \* per task, the locals of its DiscordUtils.update_list call
    audit,      \* the last call of DiscordUtils.log_action made by a step
    settled,    \* per group: a pass has saved and nothing it renders changed since
    verified,   \* the verification that the last step ran, if it ran one
    txn         \* the write transaction of a save_message_ids call that is
                \* followed statement by statement, if there is one

vars == <<servers, members, messages, memo, platform, running, sw, cmd,
          ul, audit, settled, verified, txn>>

-----------------------------------------------------------------------------
(* Bounds of the model *)

\* MEMBERS_PER_FIELD is 15 in src/main.py:49; scaled down so that rosters
\* of a few names span several pages.
MEMBERS_PER_FIELD == 1
\* MAX_FIELDS_PER_EMBED is 3 in src/main.py:50; scaled down likewise.
MAX_FIELDS_PER_EMBED == 1
\* CHECK_LIMIT is 15 in src/main.py:58; scaled down so that a roster can
\* exceed the batch of one sweep.
CHECK_LIMIT == 1
\* message ids the platform can hand out
MaxMsgs == 3
\* the largest roster handed to create_list_embeds on its own
MaxRoster == 100

\* the layout constants at the values of src/main.py:49-50
SOURCE_MEMBERS_PER_FIELD == 15
SOURCE_FIELDS_PER_EMBED == 3

Groups == {1, 2}
GuildNames == {"guild"}
\* the names a group can change its external group to
MemoGuilds == {"guild", "other"}
Names == {"A", "a", "b", "c"}
MsgIds == 1..MaxMsgs
Tasks == {"sweep", "cmd"}

MAX_RETRIES == 1

\* Python's None, and the empty place of a record-valued variable
None == [none |-> TRUE]

-----------------------------------------------------------------------------
(* Strings *)

\* str.lower()
\* a key that keeps the case of the name
Lower_keeping_case(name) == name

Lower(name) == IF name = "A" THEN "a" ELSE name

\* position of a case-folded name in the order of COLLATE NOCASE
KeyRank(key) == CASE key = "a" -> 1 [] key = "b" -> 2 [] key = "c" -> 3

Min(a, b) == IF a < b THEN a ELSE b

Range(s) == {s[i] : i \in 1..Len(s)}

\* the injective sequences over a finite set S that list all of S
Perms(S) ==
    {s \in [1..Cardinality(S) -> S] : \A i, j \in 1..Cardinality(S) :
                                         i # j => s[i] # s[j]}

-----------------------------------------------------------------------------
(* class Database *)

get_server_config(srv, server_id) ==
    IF \E i \in 1..Len(srv) : srv[i].server_id = server_id
    THEN LET i == CHOOSE k \in 1..Len(srv) : srv[k].server_id = server_id
         IN  [guild_name |-> srv[i].guild_name, autoremove |-> srv[i].autoremove]
    ELSE None

\* INSERT OR REPLACE: the old row of the key goes, the new row gets the
\* highest rowid.
save_server_config(srv, server_id, config) ==
    Append(SelectSeq(srv, LAMBDA r : r.server_id # server_id),
           [server_id |-> server_id, guild_name |-> config.guild_name,
            autoremove |-> config.autoremove])

MemberRows(mem, server_id) == {r \in mem : r.server_id = server_id}

\* SELECT name ... ORDER BY name COLLATE NOCASE
get_members(mem, server_id) ==
    LET rows == MemberRows(mem, server_id)
    IN  CHOOSE s \in [1..Cardinality(rows) -> {r.name : r \in rows}] :
            /\ {s[i] : i \in 1..Cardinality(rows)} = {r.name : r \in rows}
            /\ \A i, j \in 1..Cardinality(rows) :
                   i < j => KeyRank(Lower(s[i])) < KeyRank(Lower(s[j]))

member_exists(mem, server_id, name) ==
    \E r \in mem : r.server_id = server_id /\ r.normalized_name = Lower(name)

\* INSERT OR IGNORE under PRIMARY KEY (server_id, normalized_name)
add_member(mem, server_id, name, time) ==
    IF \E r \in mem : r.server_id = server_id /\ r.normalized_name = Lower(name)
    THEN mem
    ELSE mem \cup {[server_id |-> server_id, name |-> name,
                    normalized_name |-> Lower(name), last_checked |-> time]}

remove_member_keeping(mem, server_id, name) == mem

\* DELETE FROM members WHERE server_id = ? AND normalized_name = ?
remove_member(mem, server_id, name) ==
    {r \in mem : ~(r.server_id = server_id /\ r.normalized_name = Lower(name))}

\* a store that leaves the stamp of a checked member as it was
update_last_checked_skipping(mem, server_id, name, time) == mem

\* UPDATE members SET last_checked = ? WHERE server_id = ? AND normalized_name = ?
update_last_checked(mem, server_id, name, time) ==
    {IF r.server_id = server_id /\ r.normalized_name = Lower(name)
     THEN [r EXCEPT !.last_checked = time] ELSE r : r \in mem}

MessageRows(msgs, server_id) == {r \in msgs : r.server_id = server_id}

\* DELETE, then one INSERT per id with its index, in one transaction
save_message_ids(msgs, server_id, message_ids) ==
    (msgs \ MessageRows(msgs, server_id))
    \cup {[server_id |-> server_id, message_id |-> message_ids[i],
           embed_index |-> i - 1] : i \in 1..Len(message_ids)}

\* the DELETE of save_message_ids, on the rows its connection works on
delete_messages(rows, server_id) == rows \ MessageRows(rows, server_id)

\* one INSERT of save_message_ids: the id of position idx, counted from 0
insert_message(rows, server_id, msg_id, idx) ==
    rows \cup {[server_id |-> server_id, message_id |-> msg_id, embed_index |-> idx]}

\* the INSERT violates PRIMARY KEY (server_id, message_id)
DuplicateKey(rows, server_id, msg_id) ==
    \E r \in rows : r.server_id = server_id /\ r.message_id = msg_id

\* a connection in autocommit mode: every statement is committed at once
AfterStatement_autocommit(committed, work) == work

\* what the other connections find in the table after a statement of
\* save_message_ids: sqlite3.connect(DB_FILE) leaves the connection in the
\* default isolation mode, where the first DELETE or INSERT opens a
\* transaction that lasts until conn.commit(); until then the statements
\* change only what this connection sees
AfterStatement(committed, work) == committed

\* SELECT message_id ... ORDER BY embed_index
get_message_ids(msgs, server_id) ==
    LET rows == MessageRows(msgs, server_id)
    IN  CHOOSE s \in [1..Cardinality(rows) -> {r.message_id : r \in rows}] :
            \E f \in [1..Cardinality(rows) -> rows] :
                /\ {f[i] : i \in 1..Cardinality(rows)} = rows
                /\ \A i \in 1..Cardinality(rows) : s[i] = f[i].message_id
                /\ \A i, j \in 1..Cardinality(rows) :
                       i < j => f[i].embed_index < f[j].embed_index

-----------------------------------------------------------------------------
(* Time.  Timestamps are only ever stored and compared, and only among the  *)
(* rows of one server (ORDER BY last_checked), so the model keeps them      *)
(* rank-compressed per server: equal stay equal, smaller stay smaller.      *)

Rank(mem, r) ==
    Cardinality({q.last_checked : q \in
                    {q \in mem : /\ q.server_id = r.server_id
                                 /\ q.last_checked < r.last_checked}})

Normalize(mem) == {[r EXCEPT !.last_checked = Rank(mem, r)] : r \in mem}

\* int(time.time()).  Every step that writes a timestamp ends in a sleep of
\* several seconds, so the clock a later step reads is ahead of every
\* timestamp in the store.
Now(mem) == Cardinality(mem) + 1

-----------------------------------------------------------------------------
(* class AQWUtils *)

\* what one requests.get of the character page can give
Responses == {"member", "nonmember", "http429", "error"}

\* a loop that takes a rate-limited answer for a member
check_loop_lenient(resps, attempt) ==
    IF resps[attempt + 1] \in {"member", "http429"} THEN "true" ELSE "false"

\* the loop `for attempt in range(MAX_RETRIES)`; attempt counts from 0.
\* The value of the call: "true", "false" (False, or the empty xpath
\* result), or "none" when the loop runs out.
RECURSIVE check_loop(_, _)
check_loop(resps, attempt) ==
    IF attempt >= MAX_RETRIES THEN "none"
    ELSE CASE resps[attempt + 1] = "member"    -> "true"
           [] resps[attempt + 1] = "nonmember" -> "false"
           [] resps[attempt + 1] = "http429"   -> check_loop(resps, attempt + 1)
           [] resps[attempt + 1] = "error"     -> "false"

\* the requests.get calls the loop issues from attempt on: one per turn,
\* and a further turn only after an HTTPError with status 429
RECURSIVE check_fetches(_, _)
check_fetches(resps, attempt) ==
    IF attempt >= MAX_RETRIES THEN 0
    ELSE IF resps[attempt + 1] = "http429"
         THEN 1 + check_fetches(resps, attempt + 1)
         ELSE 1

\* a memo that keeps the true results only
check_aqw_guild_caching_true(cache, name, aqw_guild_name, resps) ==
    IF cache[<<name, aqw_guild_name>>] # "unset"
    THEN [value |-> cache[<<name, aqw_guild_name>>], cache |-> cache]
    ELSE [value |-> check_loop(resps, 0),
          cache |-> IF check_loop(resps, 0) = "true"
                    THEN [cache EXCEPT ![<<name, aqw_guild_name>>] = "true"]
                    ELSE cache]

\* lru_cache(maxsize=1000) around the loop: a hit returns the stored value,
\* a miss runs the loop and stores what it returned.  The model never holds
\* 1000 entries, so nothing is evicted.
check_aqw_guild(cache, name, aqw_guild_name, resps) ==
    IF cache[<<name, aqw_guild_name>>] # "unset"
    THEN [value |-> cache[<<name, aqw_guild_name>>], cache |-> cache]
    ELSE [value |-> check_loop(resps, 0),
          cache |-> [cache EXCEPT ![<<name, aqw_guild_name>>] = check_loop(resps, 0)]]

\* Python truth of the value
Truthy(value) == value = "true"

\* the answers the character page can give to the attempts of one call, one
\* more than the loop can use
AnswerSeqs == [1..(MAX_RETRIES + 1) -> Responses]

-----------------------------------------------------------------------------
(* class DiscordUtils: rendering *)

\* the Python slice s[start:end], start and end counted from 0
\* a slice that takes one element too many
Slice_inclusive(s, start, end) ==
    IF start >= Len(s) THEN <<>> ELSE SubSeq(s, start + 1, Min(end + 1, Len(s)))

\* s[start:end]
Slice(s, start, end) ==
    IF start >= Len(s) THEN <<>> ELSE SubSeq(s, start + 1, Min(end, Len(s)))

\* range(0, n, step) as a sequence
RECURSIVE RangeStep(_, _, _)
RangeStep(from, n, step) ==
    IF from >= n THEN <<>> ELSE <<from>> \o RangeStep(from + step, n, step)

\* a label that starts again at 1 on every page
IndexLabel_per_page(j, i, column_size, chunk_idx, members_per_embed) ==
    (j + 1) + (i * column_size)

\* the label of the j-th member (from 0) of column i:
\* (j+1)+(i*column_size)+(chunk_idx*members_per_embed)
IndexLabel(j, i, column_size, chunk_idx, members_per_embed) ==
    (j + 1) + (i * column_size) + (chunk_idx * members_per_embed)

\* the fields of one embed: column i holds chunk[i*column_size : ...], an
\* empty column adds no field
\* per_field and per_embed are MEMBERS_PER_FIELD and MAX_FIELDS_PER_EMBED
RECURSIVE EmbedFields(_, _, _, _, _, _)
EmbedFields(chunk, chunk_idx, column_size, i, per_field, per_embed) ==
    IF i >= per_embed THEN <<>>
    ELSE LET field_members == Slice(chunk, i * column_size,
                                    i * column_size + column_size)
             value == [j \in 1..Len(field_members) |->
                          <<IndexLabel(j - 1, i, column_size, chunk_idx,
                                       per_field * per_embed),
                            field_members[j]>>]
         IN  (IF field_members = <<>> THEN <<>>
              ELSE <<[name |-> i + 1, value |-> value]>>)
             \o EmbedFields(chunk, chunk_idx, column_size, i + 1,
                            per_field, per_embed)

\* the body of create_list_embeds for given values of the two layout
\* constants
ListEmbeds(guild_name, member_list, per_field, per_embed) ==
    LET members_per_embed == per_field * per_embed
        starts == RangeStep(0, Len(member_list), members_per_embed)
        chunks == [k \in 1..Len(starts) |->
                      Slice(member_list, starts[k], starts[k] + members_per_embed)]
    IN  [k \in 1..Len(chunks) |->
            [title  |-> guild_name,
             footer |-> <<k, Len(chunks)>>,
             fields |-> EmbedFields(chunks[k], k - 1,
                                    (Len(chunks[k]) \div per_embed) + 1, 0,
                                    per_field, per_embed)]]

create_list_embeds(guild_name, member_list) ==
    ListEmbeds(guild_name, member_list, MEMBERS_PER_FIELD, MAX_FIELDS_PER_EMBED)

\* the names an embed shows
EmbedNames(embed) ==
    UNION {{embed.fields[f].value[j][2] : j \in 1..Len(embed.fields[f].value)} :
           f \in 1..Len(embed.fields)}

-----------------------------------------------------------------------------
(* The state after start-up on an empty database.  A server_id of 0 and an
   outcome of "" stand for a local variable that is not bound yet. *)

\* kept and interrupted are history, not state of the program: the members
\* this sweep has checked and kept, and those the sweep that a restart
\* interrupted had checked and kept
SwIdle ==
    [pc |-> "idle", todo |-> <<>>, server_id |-> 0, config |-> None,
     names |-> <<>>, total_checked |-> 0, successful_checks |-> 0,
     processed |-> {}, kept |-> {}, interrupted |-> {}, due |-> <<>>]

CmdIdle ==
    [pc |-> "idle", op |-> "", server_id |-> 0, config |-> None,
     names |-> <<>>, todo |-> <<>>, changed |-> FALSE]

UlOff ==
    [pc |-> "off", server_id |-> 0, embeds |-> <<>>,
     existing_message_ids |-> <<>>, new_message_ids |-> <<>>, idx |-> 0,
     surplus |-> <<>>, outcome |-> "", last |-> None, sent |-> 0, deleted |-> 0,
     seen |-> {}, fresh |-> FALSE, overlap |-> FALSE]

\* the call update_list(bot, server_id) as it is entered
UlCall(server_id) == [UlOff EXCEPT !.pc = "begin", !.server_id = server_id]

Init ==
    /\ servers = <<>>
    /\ members = {}
    /\ messages = {}
    /\ memo = [k \in Names \X GuildNames |-> "unset"]
    /\ platform = [m \in MsgIds |-> None]
    /\ running = "none"
    /\ sw = SwIdle
    /\ cmd = CmdIdle
    /\ ul = [t \in Tasks |-> UlOff]
    /\ audit = None
    /\ settled = [g \in Groups |-> FALSE]
    /\ verified = None
    /\ txn = None

\* a task may take a step when no other task is between two awaits
MayRun(t) == running \in {"none", t}

-----------------------------------------------------------------------------
(* live_guild_check, the periodic sweep *)

\* SELECT server_id FROM servers WHERE autoremove = 1 (a table scan)
DueServers(srv) ==
    LET due == SelectSeq(srv, LAMBDA r : r.autoremove)
    IN  [i \in 1..Len(due) |-> due[i].server_id]

\* the same query ordered by last_checked DESC
SelectDue_newest(mem, server_id, limit) ==
    LET rows == MemberRows(mem, server_id)
        n == Min(limit, Cardinality(rows))
    IN  {[i \in 1..n |-> f[i].name] :
            f \in {g \in [1..n -> rows] :
                      /\ \A i, j \in 1..n : i # j => g[i] # g[j]
                      /\ \A i, j \in 1..n : i < j =>
                             g[i].last_checked >= g[j].last_checked
                      /\ \A r \in rows \ {g[i] : i \in 1..n} :
                             \A i \in 1..n : g[i].last_checked >= r.last_checked}}

\* SELECT name ... ORDER BY last_checked ASC LIMIT ?: every answer the
\* query can give; rows of equal last_checked come in any order
SelectDue(mem, server_id, limit) ==
    LET rows == MemberRows(mem, server_id)
        n == Min(limit, Cardinality(rows))
    IN  {[i \in 1..n |-> f[i].name] :
            f \in {g \in [1..n -> rows] :
                      /\ \A i, j \in 1..n : i # j => g[i] # g[j]
                      /\ \A i, j \in 1..n : i < j =>
                             g[i].last_checked <= g[j].last_checked
                      /\ \A r \in rows \ {g[i] : i \in 1..n} :
                             \A i \in 1..n : g[i].last_checked <= r.last_checked}}

\* the timer fires: the sweep opens the store and lists the due servers.
\* open_ok = FALSE makes sqlite3.connect raise: `except Exception` logs it,
\* then `finally: conn.close()` reads the local conn that was never bound,
\* and the UnboundLocalError leaves the coroutine; tasks.loop ends a loop
\* whose body raises, so the task is stopped until the process starts again.
SweepStart(open_ok) ==
    /\ running = "none"
    /\ sw.pc = "idle"
    /\ IF open_ok
       THEN /\ sw' = [SwIdle EXCEPT !.pc = "servers", !.todo = DueServers(servers),
                                    !.due = DueServers(servers),
                                    !.interrupted = sw.interrupted]
            /\ running' = "sweep"
       ELSE /\ sw' = [SwIdle EXCEPT !.pc = "stopped"]
            /\ running' = "none"
    /\ audit' = None
    /\ verified' = None
    /\ UNCHANGED <<txn, servers, members, messages, memo, platform, cmd, ul, settled>>

\* one turn of `for server_id in ...`, up to the member loop.  load_ok =
\* FALSE makes Database.get_server_config or the SELECT of the batch raise:
\* both stand outside the try of the member loop, so the exception reaches
\* the `except Exception` of the sweep, which logs it; the store is closed and
\* the sweep returns.
SweepServerWith(load_ok, limit) ==
    /\ MayRun("sweep")
    /\ sw.pc = "servers"
    /\ sw.todo # <<>>
    /\ LET server_id == Head(sw.todo)
           config == get_server_config(servers, server_id)
       IN  IF ~load_ok
           THEN /\ sw' = SwIdle
                /\ running' = "none"
           ELSE /\ IF config = None
                   THEN sw' = [sw EXCEPT !.server_id = server_id,
                                         !.todo = Tail(sw.todo)]
                   ELSE \E sel \in SelectDue(members, server_id, limit) :
                            sw' = [sw EXCEPT !.server_id = server_id,
                                             !.todo = Tail(sw.todo),
                                             !.config = config,
                                             !.names = sel,
                                             !.pc = IF sel = <<>> THEN "servers"
                                                                  ELSE "members"]
                /\ running' = "sweep"
    /\ audit' = None
    /\ verified' = None
    /\ UNCHANGED <<txn, servers, members, messages, memo, platform, cmd, ul, settled>>

\* the store change of one member of the batch: removal, or the new stamp
SweepPolicy(mem, server_id, name, in_guild, config, time) ==
    IF ~Truthy(in_guild) /\ config.autoremove
    THEN remove_member(mem, server_id, name)
    ELSE update_last_checked(mem, server_id, name, time)

\* a turn that leaves the sweep: the exception is not caught in the loop
NextTurn_leaving(rec) == [rec EXCEPT !.names = <<>>, !.todo = <<>>, !.pc = "servers"]

\* the end of a turn of `for name, in c.fetchall()`, after the try block or
\* after its except branch: the loop goes on with the next name of the batch
NextTurn(rec) ==
    [rec EXCEPT !.names = Tail(rec.names),
                !.pc = IF Tail(rec.names) = <<>> THEN "servers" ELSE "members"]

\* one turn of `for name, in c.fetchall()`; resps are the answers of the
\* character page, store_ok = FALSE makes the store call of the turn raise.
\* The extra pause before every fifth check (total_checked % 5 == 0) only
\* spends time; the turn ends in a sleep, REQUEST_DELAY after a completed check and RETRY_DELAY
\* after an exception.  note = TRUE records the member in the history.
SweepMemberNoting(resps, store_ok, note) ==
    /\ MayRun("sweep")
    /\ sw.pc = "members"
    /\   LET name == Head(sw.names)
             time == Now(members)
             res == check_aqw_guild(memo, name, sw.config.guild_name, resps)
             removes == ~Truthy(res.value) /\ sw.config.autoremove
             mem2 == IF store_ok
                     THEN SweepPolicy(members, sw.server_id, name, res.value,
                                      sw.config, time)
                     ELSE members
         IN  /\ memo' = res.cache
             /\ members' = Normalize(mem2)
             /\ audit' = IF store_ok /\ removes
                         THEN [server_id |-> sw.server_id, action |-> "Auto-removed",
                               name |-> name]
                         ELSE None
             /\ settled' = IF store_ok /\ removes
                           THEN [settled EXCEPT ![sw.server_id] = FALSE]
                           ELSE settled
             /\ verified' = [by |-> "sweep", server_id |-> sw.server_id,
                             name |-> name, value |-> res.value,
                             autoremove |-> sw.config.autoremove,
                             store_ok |-> store_ok]
             /\ sw' = [NextTurn(sw) EXCEPT
                                 !.total_checked = sw.total_checked + 1,
                                 !.successful_checks = sw.successful_checks + 1,
                                 !.processed = sw.processed \cup {sw.server_id},
                                 !.kept = IF note /\ store_ok /\ ~removes
                                          THEN sw.kept \cup {<<sw.server_id, name>>}
                                          ELSE sw.kept]
    /\ running' = "none"
    /\ UNCHANGED <<txn, servers, messages, platform, cmd, ul>>

\* the turn of the member loop without the history
SweepMember(resps, store_ok) == SweepMemberNoting(resps, store_ok, FALSE)

\* the turn of the server loop with the batch size of the model
SweepServer(load_ok) == SweepServerWith(load_ok, CHECK_LIMIT)

\* after the loops: `if successful_checks > 0: await update_list(bot, server_id)`
SweepFinish ==
    /\ MayRun("sweep")
    /\ sw.pc = "servers"
    /\ sw.todo = <<>>
    /\ IF sw.successful_checks > 0
       THEN /\ sw' = [sw EXCEPT !.pc = "update_list"]
            /\ ul' = [ul EXCEPT !["sweep"] = UlCall(sw.server_id)]
            /\ running' = "sweep"
       ELSE /\ sw' = SwIdle
            /\ ul' = ul
            /\ running' = "none"
    /\ audit' = None
    /\ verified' = None
    /\ UNCHANGED <<txn, servers, members, messages, memo, platform, cmd, settled>>

\* update_list has returned: the sweep logs its totals and closes the store
SweepEnd ==
    /\ MayRun("sweep")
    /\ sw.pc = "update_list"
    /\ ul["sweep"].pc = "done"
    /\ sw' = SwIdle
    /\ ul' = [ul EXCEPT !["sweep"] = UlOff]
    /\ running' = "none"
    /\ audit' = None
    /\ verified' = None
    /\ UNCHANGED <<txn, servers, members, messages, memo, platform, cmd, settled>>

-----------------------------------------------------------------------------
(* DiscordUtils.update_list, the display synchronizer *)

\* ids the platform has handed out and something still refers to
UsedIds ==
    {m \in MsgIds : platform[m] # None}
    \cup {r.message_id : r \in messages}
    \cup UNION {Range(ul[t].existing_message_ids) \cup Range(ul[t].new_message_ids)
                : t \in Tasks}

\* the id of the next message channel.send creates
NewId == CHOOSE m \in MsgIds \ UsedIds : \A k \in MsgIds \ UsedIds : m <= k

CanSend == MsgIds \ UsedIds # {}

\* where the pass stands after the loops have advanced
UlPc_without_deletes(idx, embeds, surplus) ==
    IF idx < Len(embeds) THEN "pages" ELSE "save"

\* where update_list stands: in the page loop, in the delete loop, or at the save
UlPc(idx, embeds, surplus) ==
    IF idx < Len(embeds) THEN "pages"
    ELSE IF surplus # <<>> THEN "deletes" ELSE "save"

\* a pass of the same group that has read the id list and not yet stored
\* its own; the field overlap is history: another pass of the group was
\* under way while this one was
Overlaps(rec, server_id) ==
    rec.pc \in {"pages", "deletes", "save"} /\ rec.server_id = server_id

\* the synchronous head of update_list, up to its first platform call;
\* channel = FALSE is bot.get_channel returning None
ULBegin(t, channel) ==
    /\ MayRun(t)
    /\ ul[t].pc = "begin"
    /\   LET server_id == ul[t].server_id
             config == get_server_config(servers, server_id)
             embeds == create_list_embeds(config.guild_name,
                                          get_members(members, server_id))
             existing == get_message_ids(messages, server_id)
             surplus == Slice(existing, Len(embeds), Len(existing))
             pc == UlPc(0, embeds, surplus)
         IN  IF config = None \/ ~channel
             THEN /\ ul' = [ul EXCEPT ![t].pc = "done", ![t].outcome = "returned"]
                  /\ running' = t
             ELSE /\ ul' = [o \in Tasks |->
                             IF o = t
                             THEN [ul[t] EXCEPT
                                      !.pc = pc,
                                      !.embeds = embeds,
                                      !.existing_message_ids = existing,
                                      !.surplus = surplus,
                                      !.fresh =
                                          /\ settled[server_id]
                                          /\ \A q \in Tasks \ {t} :
                                                 \/ ul[q].pc = "off"
                                                 \/ ul[q].server_id # server_id,
                                      !.overlap = \E q \in Tasks \ {t} :
                                                     Overlaps(ul[q], server_id)]
                             ELSE IF Overlaps(ul[o], server_id)
                                  THEN [ul[o] EXCEPT !.overlap = TRUE]
                                  ELSE ul[o]]
                  /\ running' = IF pc = "save" THEN t ELSE "none"
    /\ audit' = None
    /\ verified' = None
    /\ UNCHANGED <<txn, servers, members, messages, memo, platform, sw, cmd, settled>>

\* what the platform can answer to the edit or the send of page idx
PageOutcomes(rec) ==
    IF rec.idx < Len(rec.existing_message_ids)
    THEN IF platform[rec.existing_message_ids[rec.idx + 1]] # None
         THEN {"ok", "ratelimited", "error"}
         ELSE {"notfound", "ratelimited", "error"}
    ELSE {"notfound", "ratelimited", "error"}
         \cup (IF CanSend THEN {"ok"} ELSE {})

\* one turn of `for idx, embed in enumerate(embeds)`: the try block and its
\* handlers.  `retry` is the answer to the send of the NotFound handler; an
\* exception raised there leaves update_list through its outer handler.
ULPage(t, outcome, retry) ==
    /\ MayRun(t)
    /\ ul[t].pc = "pages"
    /\ outcome \in PageOutcomes(ul[t])
    /\ (outcome = "notfound" /\ retry = "ok") => CanSend
    /\   LET rec == ul[t]
             embed == rec.embeds[rec.idx + 1]
             has == rec.idx < Len(rec.existing_message_ids)
             edits == has /\ outcome = "ok"
             sends == (~has /\ outcome = "ok") \/ (outcome = "notfound" /\ retry = "ok")
             raises == outcome = "notfound" /\ retry = "fail"
             msg == IF edits THEN rec.existing_message_ids[rec.idx + 1] ELSE NewId
             pc == UlPc(rec.idx + 1, rec.embeds, rec.surplus)
         IN  /\ platform' = IF edits \/ sends
                            THEN [platform EXCEPT ![msg] = embed] ELSE platform
             /\ ul' = [ul EXCEPT
                          ![t].new_message_ids =
                              IF edits \/ sends THEN Append(rec.new_message_ids, msg)
                                                ELSE rec.new_message_ids,
                          ![t].idx = rec.idx + 1,
                          ![t].pc = IF raises THEN "done" ELSE pc,
                          ![t].outcome = IF raises THEN "raised" ELSE "",
                          ![t].sent = IF sends THEN rec.sent + 1 ELSE rec.sent,
                          ![t].seen = rec.seen \cup {outcome},
                          ![t].last = [op |-> "page", idx |-> rec.idx,
                                       outcome |-> outcome]]
             /\ running' = IF raises \/ (pc = "save" /\ outcome # "ratelimited")
                           THEN t ELSE "none"
    /\ audit' = None
    /\ verified' = None
    /\ UNCHANGED <<txn, servers, members, messages, memo, sw, cmd, settled>>

\* one turn of `for msg_id in existing_message_ids[len(embeds):]`
ULDelete(t, outcome) ==
    /\ MayRun(t)
    /\ ul[t].pc = "deletes"
    /\   LET rec == ul[t]
             msg_id == Head(rec.surplus)
             pc == UlPc(rec.idx, rec.embeds, Tail(rec.surplus))
         IN  /\ (outcome = "ok") => platform[msg_id] # None
             /\ (outcome = "notfound") => platform[msg_id] = None
             /\ platform' = IF outcome = "ok"
                            THEN [platform EXCEPT ![msg_id] = None] ELSE platform
             /\ ul' = [ul EXCEPT
                          ![t].surplus = Tail(rec.surplus),
                          ![t].pc = pc,
                          ![t].deleted = IF outcome = "ok" THEN rec.deleted + 1
                                                           ELSE rec.deleted,
                          ![t].seen = rec.seen \cup {outcome},
                          ![t].last = [op |-> "delete",
                                       idx |-> Len(rec.existing_message_ids)
                                                 - Len(rec.surplus),
                                       outcome |-> outcome]]
             /\ running' = IF pc = "save" /\ outcome # "ratelimited"
                           THEN t ELSE "none"
    /\ audit' = None
    /\ verified' = None
    /\ UNCHANGED <<txn, servers, members, messages, memo, sw, cmd, settled>>

\* Database.save_message_ids(server_id, new_message_ids) and the return
ULSave(t) ==
    /\ MayRun(t)
    /\ ul[t].pc = "save"
    /\ LET rec == ul[t]
           config == get_server_config(servers, rec.server_id)
       IN  /\ messages' = save_message_ids(messages, rec.server_id,
                                           rec.new_message_ids)
           /\ ul' = [ul EXCEPT ![t].pc = "done", ![t].outcome = "saved"]
           /\ settled' = [settled EXCEPT ![rec.server_id] =
                             /\ config # None
                             /\ rec.embeds =
                                  create_list_embeds(config.guild_name,
                                      get_members(members, rec.server_id))]
    /\ running' = t
    /\ audit' = None
    /\ verified' = None
    /\ UNCHANGED <<txn, servers, members, memo, platform, sw, cmd>>

\* somebody deletes a message of a list channel by hand
UserDeletes(m) ==
    /\ running = "none"
    /\ platform[m] # None
    /\ platform' = [platform EXCEPT ![m] = None]
    /\ audit' = None
    /\ verified' = None
    /\ UNCHANGED <<txn, servers, members, messages, memo, running, sw, cmd, ul, settled>>

-----------------------------------------------------------------------------
(* The commands.  One command runs at a time in the model. *)

Configured(server_id) == get_server_config(servers, server_id) # None

\* -setup, from the save of the configuration on
setup(server_id, aqw_guild_name) ==
    /\ running = "none"
    /\ cmd.pc = "idle"
    /\ servers' = save_server_config(servers, server_id,
                      [guild_name |-> aqw_guild_name, autoremove |-> FALSE])
    /\ cmd' = [CmdIdle EXCEPT !.pc = "update_list", !.op = "setup",
                              !.server_id = server_id]
    /\ ul' = [ul EXCEPT !["cmd"] = UlCall(server_id)]
    /\ running' = "cmd"
    /\ settled' = [settled EXCEPT ![server_id] = FALSE]
    /\ audit' = None
    /\ verified' = None
    /\ UNCHANGED <<txn, members, messages, memo, platform, sw>>

\* -autoremove on|off
autoremove(server_id, mode) ==
    /\ running = "none"
    /\ cmd.pc = "idle"
    /\ Configured(server_id)
    /\ servers' = save_server_config(servers, server_id,
                      [get_server_config(servers, server_id)
                           EXCEPT !.autoremove = (mode = "on")])
    /\ audit' = [server_id |-> server_id, action |-> "Auto-remove set", name |-> mode]
    /\ verified' = None
    /\ UNCHANGED <<txn, members, messages, memo, platform, running, sw, cmd, ul, settled>>

\* a change of the name that leaves the flag as it is
changeguild_keeping_flag(server_id, new_name) ==
    /\ running = "none"
    /\ cmd.pc = "idle"
    /\ Configured(server_id)
    /\ servers' = save_server_config(servers, server_id,
                      [get_server_config(servers, server_id)
                           EXCEPT !.guild_name = new_name])
    /\ cmd' = [CmdIdle EXCEPT !.pc = "update_list", !.op = "changeguild",
                              !.server_id = server_id]
    /\ ul' = [ul EXCEPT !["cmd"] = UlCall(server_id)]
    /\ running' = "cmd"
    /\ settled' = [settled EXCEPT ![server_id] = FALSE]
    /\ audit' = None
    /\ verified' = None
    /\ UNCHANGED <<txn, members, messages, memo, platform, sw>>

\* -changeguild new_name, from the save of the configuration on: the name
\* and autoremove = False go to the store in one save_server_config, then
\* update_list runs
changeguild(server_id, new_name) ==
    /\ running = "none"
    /\ cmd.pc = "idle"
    /\ Configured(server_id)
    /\ servers' = save_server_config(servers, server_id,
                      [get_server_config(servers, server_id)
                           EXCEPT !.guild_name = new_name,
                                  !.autoremove = FALSE])
    /\ cmd' = [CmdIdle EXCEPT !.pc = "update_list", !.op = "changeguild",
                              !.server_id = server_id]
    /\ ul' = [ul EXCEPT !["cmd"] = UlCall(server_id)]
    /\ running' = "cmd"
    /\ settled' = [settled EXCEPT ![server_id] = FALSE]
    /\ audit' = None
    /\ verified' = None
    /\ UNCHANGED <<txn, members, messages, memo, platform, sw>>

\* -add names, up to the loop over the names
add(server_id, names) ==
    /\ running = "none"
    /\ cmd.pc = "idle"
    /\ Configured(server_id)
    /\ cmd' = [CmdIdle EXCEPT !.pc = "add", !.op = "add", !.server_id = server_id,
                              !.config = get_server_config(servers, server_id),
                              !.names = names]
    /\ running' = "cmd"
    /\ audit' = None
    /\ verified' = None
    /\ UNCHANGED <<txn, servers, members, messages, memo, platform, sw, ul, settled>>

\* one turn of `for name in names` of -add, ending in its sleep
AddName(resps) ==
    /\ MayRun("cmd")
    /\ cmd.pc = "add"
    /\ cmd.names # <<>>
    /\   LET name == Head(cmd.names)
             server_id == cmd.server_id
             res == check_aqw_guild(memo, name, cmd.config.guild_name, resps)
             exists == member_exists(members, server_id, name)
             mem2 == IF Truthy(res.value)
                     THEN IF ~exists THEN add_member(members, server_id, name, Now(members))
                                     ELSE members
                     ELSE IF cmd.config.autoremove /\ exists
                          THEN remove_member(members, server_id, name)
                          ELSE members
             action == IF Truthy(res.value)
                       THEN IF ~exists THEN "Added" ELSE "Duplicate entry"
                       ELSE IF cmd.config.autoremove /\ exists
                            THEN "Auto-removed" ELSE "Added non-member"
         IN  /\ memo' = res.cache
             /\ members' = Normalize(mem2)
             /\ audit' = [server_id |-> server_id, action |-> action, name |-> name]
             /\ settled' = IF mem2 # members
                           THEN [settled EXCEPT ![server_id] = FALSE] ELSE settled
             /\ cmd' = [cmd EXCEPT !.names = Tail(cmd.names)]
    /\ running' = "none"
    /\ verified' = None
    /\ UNCHANGED <<txn, servers, messages, platform, sw, ul>>

\* after the loop of -add: the result message, then update_list
AddDone ==
    /\ MayRun("cmd")
    /\ cmd.pc = "add"
    /\ cmd.names = <<>>
    /\ cmd' = [cmd EXCEPT !.pc = "update_list"]
    /\ ul' = [ul EXCEPT !["cmd"] = UlCall(cmd.server_id)]
    /\ running' = "cmd"
    /\ audit' = None
    /\ verified' = None
    /\ UNCHANGED <<txn, servers, members, messages, memo, platform, sw, settled>>

\* -remove name, for a name that is in the list
remove(server_id, name) ==
    /\ running = "none"
    /\ cmd.pc = "idle"
    /\ Configured(server_id)
    /\ member_exists(members, server_id, name)
    /\ members' = Normalize(remove_member(members, server_id, name))
    /\ cmd' = [CmdIdle EXCEPT !.pc = "update_list", !.op = "remove",
                              !.server_id = server_id]
    /\ ul' = [ul EXCEPT !["cmd"] = UlCall(server_id)]
    /\ running' = "cmd"
    /\ settled' = [settled EXCEPT ![server_id] = FALSE]
    /\ audit' = None
    /\ verified' = None
    /\ UNCHANGED <<txn, servers, messages, memo, platform, sw>>

\* -refresh, up to the loop over the members
refresh(server_id) ==
    /\ running = "none"
    /\ cmd.pc = "idle"
    /\ Configured(server_id)
    /\ cmd' = [CmdIdle EXCEPT !.pc = "refresh", !.op = "refresh",
                              !.server_id = server_id,
                              !.config = get_server_config(servers, server_id),
                              !.names = get_members(members, server_id)]
    /\ running' = "cmd"
    /\ audit' = None
    /\ verified' = None
    /\ UNCHANGED <<txn, servers, members, messages, memo, platform, sw, ul, settled>>

\* one turn of `for name, status in members` of -refresh, ending in its sleep
RefreshName(resps) ==
    /\ MayRun("cmd")
    /\ cmd.pc = "refresh"
    /\ cmd.names # <<>>
    /\   LET name == Head(cmd.names)
             server_id == cmd.server_id
             res == check_aqw_guild(memo, name, cmd.config.guild_name, resps)
             removes == ~Truthy(res.value) /\ cmd.config.autoremove
             mem2 == IF removes THEN remove_member(members, server_id, name)
                                ELSE members
         IN  /\ memo' = res.cache
             /\ members' = Normalize(mem2)
             /\ audit' = IF removes
                         THEN [server_id |-> server_id, action |-> "Auto-removed",
                               name |-> name]
                         ELSE IF ~Truthy(res.value)
                              THEN [server_id |-> server_id,
                                    action |-> "status updated", name |-> name]
                              ELSE None
             /\ settled' = IF mem2 # members
                           THEN [settled EXCEPT ![server_id] = FALSE] ELSE settled
             /\ cmd' = [cmd EXCEPT !.names = Tail(cmd.names),
                                   !.changed = cmd.changed \/ ~Truthy(res.value)]
             /\ verified' = [by |-> "refresh", server_id |-> server_id,
                             name |-> name, value |-> res.value,
                             autoremove |-> cmd.config.autoremove,
                             store_ok |-> TRUE]
    /\ running' = "none"
    /\ UNCHANGED <<txn, servers, messages, platform, sw, ul>>

\* after the loop of -refresh: `if changed: await update_list(...)`
RefreshDone ==
    /\ MayRun("cmd")
    /\ cmd.pc = "refresh"
    /\ cmd.names = <<>>
    /\ IF cmd.changed
       THEN /\ cmd' = [cmd EXCEPT !.pc = "update_list"]
            /\ ul' = [ul EXCEPT !["cmd"] = UlCall(cmd.server_id)]
            /\ running' = "cmd"
       ELSE /\ cmd' = CmdIdle
            /\ ul' = ul
            /\ running' = "none"
    /\ audit' = None
    /\ verified' = None
    /\ UNCHANGED <<txn, servers, members, messages, memo, platform, sw, settled>>

\* update_list has returned to the command
CmdEnd ==
    /\ MayRun("cmd")
    /\ cmd.pc = "update_list"
    /\ ul["cmd"].pc = "done"
    /\ cmd' = CmdIdle
    /\ ul' = [ul EXCEPT !["cmd"] = UlOff]
    /\ running' = "none"
    /\ audit' = None
    /\ verified' = None
    /\ UNCHANGED <<txn, servers, members, messages, memo, platform, sw, settled>>

-----------------------------------------------------------------------------
(* Restart of the process (the -restart command, the hourly restart check,  *)
(* a crash): the database and the platform stay, the memo and every task    *)
(* are gone.  on_ready starts the sweep timer and runs update_list for      *)
(* every configured server in turn; the model runs that loop in the         *)
(* command task.                                                            *)

AllServers(srv) == [i \in 1..Len(srv) |-> srv[i].server_id]

\* note = TRUE keeps, as history, what the interrupted sweep had done
RestartNoting(note) ==
    /\ running = "none"
    /\ memo' = [k \in Names \X GuildNames |-> "unset"]
    /\ sw' = [SwIdle EXCEPT !.interrupted =
                  IF ~note THEN {}
                  ELSE IF sw.pc \in {"servers", "members", "update_list"}
                       THEN sw.kept ELSE sw.interrupted]
    /\ cmd' = [CmdIdle EXCEPT !.pc = "ready", !.op = "on_ready",
                              !.todo = AllServers(servers)]
    /\ ul' = [t \in Tasks |-> UlOff]
    /\ running' = "cmd"
    /\ audit' = None
    /\ verified' = None
    /\ UNCHANGED <<txn, servers, members, messages, platform, settled>>

Restart == RestartNoting(FALSE)

\* one turn of `for server_id in server_ids` of on_ready
ReadyNext ==
    /\ MayRun("cmd")
    /\ cmd.pc = "ready"
    /\ IF cmd.todo = <<>>
       THEN /\ cmd' = CmdIdle
            /\ ul' = ul
            /\ running' = "none"
       ELSE /\ cmd' = [cmd EXCEPT !.pc = "ready_update_list",
                                  !.server_id = Head(cmd.todo),
                                  !.todo = Tail(cmd.todo)]
            /\ ul' = [ul EXCEPT !["cmd"] = UlCall(Head(cmd.todo))]
            /\ running' = "cmd"
    /\ audit' = None
    /\ verified' = None
    /\ UNCHANGED <<txn, servers, members, messages, memo, platform, sw, settled>>

\* update_list has returned to on_ready
ReadyReturn ==
    /\ MayRun("cmd")
    /\ cmd.pc = "ready_update_list"
    /\ ul["cmd"].pc = "done"
    /\ cmd' = [cmd EXCEPT !.pc = "ready"]
    /\ ul' = [ul EXCEPT !["cmd"] = UlOff]
    /\ running' = "cmd"
    /\ audit' = None
    /\ verified' = None
    /\ UNCHANGED <<txn, servers, members, messages, memo, platform, sw, settled>>

-----------------------------------------------------------------------------
(* Specifications *)

PlainResponseSeqs == [1..MAX_RETRIES -> {"member", "nonmember"}]
Outcomes == {"ok", "notfound", "ratelimited", "error"}

\* The sweep, the commands and restarts on one server; the platform answers
\* every call of update_list, and nobody deletes list messages by hand.
MainGroups == {1}
MainNames == {"a", "b"}

Next ==
    \/ Restart
    \/ ReadyNext
    \/ ReadyReturn
    \/ SweepStart(TRUE)
    \/ SweepServer(TRUE)
    \/ \E resps \in PlainResponseSeqs, store_ok \in BOOLEAN : SweepMember(resps, store_ok)
    \/ SweepFinish
    \/ SweepEnd
    \/ \E t \in Tasks : ULBegin(t, TRUE)
    \/ \E t \in Tasks : ULPage(t, "ok", "ok")
    \/ \E t \in Tasks : ULDelete(t, "ok")
    \/ \E t \in Tasks : ULSave(t)
    \/ \E g \in MainGroups, gn \in GuildNames : setup(g, gn)
    \/ \E g \in MainGroups, mode \in {"on", "off"} : autoremove(g, mode)
    \/ \E g \in MainGroups, n \in MainNames : add(g, <<n>>)
    \/ \E resps \in PlainResponseSeqs : AddName(resps)
    \/ AddDone
    \/ \E g \in MainGroups, n \in MainNames : remove(g, n)
    \/ \E g \in MainGroups : refresh(g)
    \/ \E resps \in PlainResponseSeqs : RefreshName(resps)
    \/ RefreshDone
    \/ CmdEnd

Spec == Init /\ [][Next]_vars

\* The display synchronizer of one server under every answer of the
\* platform: the commands that change the roster, each followed by its
\* update_list, and list messages deleted by hand.
NextSync ==
    \/ \E g \in MainGroups, gn \in GuildNames : setup(g, gn)
    \/ \E g \in MainGroups, n \in MainNames : add(g, <<n>>)
    \/ \E resps \in PlainResponseSeqs : AddName(resps)
    \/ AddDone
    \/ \E g \in MainGroups, n \in MainNames : remove(g, n)
    \/ \E channel \in BOOLEAN : ULBegin("cmd", channel)
    \/ \E outcome \in Outcomes, retry \in {"ok", "fail"} : ULPage("cmd", outcome, retry)
    \/ \E outcome \in Outcomes : ULDelete("cmd", outcome)
    \/ ULSave("cmd")
    \/ CmdEnd
    \/ \E m \in MsgIds : UserDeletes(m)

SpecSync == Init /\ [][NextSync]_vars

\* A process that starts on a database which earlier runs have filled: both
\* servers are configured with auto-remove on, the rosters hold any of the
\* names, no list message has been posted yet.  on_ready and the sweep run.
Stored(server_id, names) ==
    LET order == CHOOSE s \in Perms(names) : TRUE
    IN  {[server_id |-> server_id, name |-> order[i],
          normalized_name |-> Lower(order[i]), last_checked |-> i - 1]
         : i \in 1..Len(order)}

InitStored ==
    /\ servers = <<[server_id |-> 1, guild_name |-> "guild", autoremove |-> TRUE],
                   [server_id |-> 2, guild_name |-> "guild", autoremove |-> TRUE]>>
    /\ \E r1 \in SUBSET MainNames, r2 \in SUBSET MainNames :
           members = Stored(1, r1) \cup Stored(2, r2)
    /\ messages = {}
    /\ memo = [k \in Names \X GuildNames |-> "unset"]
    /\ platform = [m \in MsgIds |-> None]
    /\ running = "cmd"
    /\ sw = SwIdle
    /\ cmd = [CmdIdle EXCEPT !.pc = "ready", !.op = "on_ready",
                             !.todo = AllServers(servers)]
    /\ ul = [t \in Tasks |-> UlOff]
    /\ audit = None
    /\ settled = [g \in Groups |-> FALSE]
    /\ verified = None
    /\ txn = None

NextStored ==
    \/ ReadyNext
    \/ ReadyReturn
    \/ SweepStart(TRUE)
    \/ SweepServer(TRUE)
    \/ \E resps \in PlainResponseSeqs, store_ok \in BOOLEAN : SweepMember(resps, store_ok)
    \/ SweepFinish
    \/ SweepEnd
    \/ \E t \in Tasks : ULBegin(t, TRUE)
    \/ \E t \in Tasks : ULPage(t, "ok", "ok")
    \/ \E t \in Tasks : ULDelete(t, "ok")
    \/ \E t \in Tasks : ULSave(t)
    \/ \E g \in Groups, mode \in {"on", "off"} : autoremove(g, mode)

SpecStored == InitStored /\ [][NextStored]_vars

\* the sweep with a batch of more than one member per server, beside the
\* passes it and on_ready run and the autoremove command
BatchLimit == CHECK_LIMIT + 1

NextOrder ==
    \/ ReadyNext
    \/ ReadyReturn
    \/ SweepStart(TRUE)
    \/ SweepServerWith(TRUE, BatchLimit)
    \/ \E resps \in PlainResponseSeqs : SweepMember(resps, TRUE)
    \/ SweepFinish
    \/ SweepEnd
    \/ \E t \in Tasks : ULBegin(t, TRUE)
    \/ \E t \in Tasks : ULPage(t, "ok", "ok")
    \/ \E t \in Tasks : ULDelete(t, "ok")
    \/ \E t \in Tasks : ULSave(t)
    \/ \E g \in Groups, mode \in {"on", "off"} : autoremove(g, mode)

SpecOrder == InitStored /\ [][NextOrder]_vars

\* the sweep, stopped at any of its awaits by a restart of the process, and
\* the sweep of the new process
NextRestart ==
    \/ RestartNoting(TRUE)
    \/ ReadyNext
    \/ ReadyReturn
    \/ SweepStart(TRUE)
    \/ SweepServerWith(TRUE, BatchLimit)
    \/ \E resps \in PlainResponseSeqs :
           SweepMemberNoting(resps, TRUE, TRUE)
    \/ SweepFinish
    \/ SweepEnd
    \/ \E t \in Tasks : ULBegin(t, TRUE)
    \/ \E t \in Tasks : ULPage(t, "ok", "ok")
    \/ \E t \in Tasks : ULDelete(t, "ok")
    \/ \E t \in Tasks : ULSave(t)

SpecRestart == InitStored /\ [][NextRestart]_vars

\* one group with auto-remove on and two external group names to choose
\* from: -changeguild and -autoremove beside the sweep
InitGuild ==
    /\ servers = <<[server_id |-> 1, guild_name |-> "guild", autoremove |-> TRUE]>>
    /\ \E r1 \in SUBSET MainNames : members = Stored(1, r1)
    /\ messages = {}
    /\ memo = [k \in MainNames \X MemoGuilds |-> "unset"]
    /\ platform = [m \in MsgIds |-> None]
    /\ running = "none"
    /\ sw = SwIdle
    /\ cmd = CmdIdle
    /\ ul = [t \in Tasks |-> UlOff]
    /\ audit = None
    /\ settled = [g \in Groups |-> FALSE]
    /\ verified = None
    /\ txn = None

NextGuild ==
    \/ \E g \in MainGroups, gn \in MemoGuilds : changeguild(g, gn)
    \/ \E g \in MainGroups, mode \in {"on", "off"} : autoremove(g, mode)
    \/ CmdEnd
    \/ SweepStart(TRUE)
    \/ SweepServerWith(TRUE, BatchLimit)
    \/ \E resps \in PlainResponseSeqs : SweepMember(resps, TRUE)
    \/ SweepFinish
    \/ SweepEnd
    \/ \E t \in Tasks : ULBegin(t, TRUE)
    \/ \E t \in Tasks : ULPage(t, "ok", "ok")
    \/ \E t \in Tasks : ULDelete(t, "ok")
    \/ \E t \in Tasks : ULSave(t)

SpecGuild == InitGuild /\ [][NextGuild]_vars

\* the commands that change a roster, with names that differ only in case,
\* beside the sweep
CaseNames == {"A", "a"}

NextRoster ==
    \/ \E g \in MainGroups, gn \in GuildNames : setup(g, gn)
    \/ \E g \in MainGroups, mode \in {"on", "off"} : autoremove(g, mode)
    \/ \E g \in MainGroups, n \in CaseNames : add(g, <<n>>)
    \/ \E resps \in PlainResponseSeqs : AddName(resps)
    \/ AddDone
    \/ \E g \in MainGroups, n \in CaseNames : remove(g, n)
    \/ CmdEnd
    \/ SweepStart(TRUE)
    \/ SweepServer(TRUE)
    \/ \E resps \in PlainResponseSeqs : SweepMember(resps, TRUE)
    \/ SweepFinish
    \/ SweepEnd
    \/ \E t \in Tasks : ULBegin(t, TRUE)
    \/ \E t \in Tasks : ULPage(t, "ok", "ok")
    \/ \E t \in Tasks : ULDelete(t, "ok")
    \/ \E t \in Tasks : ULSave(t)

SpecRoster == Init /\ [][NextRoster]_vars

\* The sweep alone on one server that stays enabled for it, under fairness:
\* tasks.loop fires the timer every TASK_INTERVAL minutes and the event loop
\* resumes a task whose sleep or platform call has ended.  The store may
\* raise in any member turn; the platform answers every call.
InitFair ==
    /\ servers = <<[server_id |-> 1, guild_name |-> "guild", autoremove |-> TRUE]>>
    /\ \E r1 \in SUBSET MainNames : members = Stored(1, r1)
    /\ messages = {}
    /\ memo = [k \in Names \X GuildNames |-> "unset"]
    /\ platform = [m \in MsgIds |-> None]
    /\ running = "none"
    /\ sw = SwIdle
    /\ cmd = CmdIdle
    /\ ul = [t \in Tasks |-> UlOff]
    /\ audit = None
    /\ settled = [g \in Groups |-> FALSE]
    /\ verified = None
    /\ txn = None

NextFair ==
    \/ SweepStart(TRUE)
    \/ SweepServer(TRUE)
    \/ \E resps \in PlainResponseSeqs, store_ok \in BOOLEAN : SweepMember(resps, store_ok)
    \/ SweepFinish
    \/ SweepEnd
    \/ ULBegin("sweep", TRUE)
    \/ ULPage("sweep", "ok", "ok")
    \/ ULDelete("sweep", "ok")
    \/ ULSave("sweep")

SpecFair == InitFair /\ [][NextFair]_vars /\ WF_vars(NextFair)

\* The sweep over two stored servers when the store can fail: at the open,
\* at the statements of the server loop and in a member turn.
NextFaults ==
    \/ ReadyNext
    \/ ReadyReturn
    \/ \E open_ok \in BOOLEAN : SweepStart(open_ok)
    \/ \E load_ok \in BOOLEAN : SweepServer(load_ok)
    \/ \E resps \in PlainResponseSeqs, store_ok \in BOOLEAN : SweepMember(resps, store_ok)
    \/ SweepFinish
    \/ SweepEnd
    \/ \E t \in Tasks : ULBegin(t, TRUE)
    \/ \E t \in Tasks : ULPage(t, "ok", "ok")
    \/ \E t \in Tasks : ULDelete(t, "ok")
    \/ \E t \in Tasks : ULSave(t)

SpecFaults == InitStored /\ [][NextFaults]_vars

\* One call of AQWUtils.check_aqw_guild(name, aqw_guild_name) under the
\* answers resps of the character page; `verified` keeps what it did.
Verify(name, aqw_guild_name, resps) ==
    /\ running = "none"
    /\ LET res == check_aqw_guild(memo, name, aqw_guild_name, resps)
           hit == memo[<<name, aqw_guild_name>>] # "unset"
       IN  /\ memo' = res.cache
           /\ verified' = [by |-> "check_aqw_guild", name |-> name,
                           aqw_guild_name |-> aqw_guild_name, resps |-> resps, hit |-> hit, value |-> res.value,
                           fetched |-> IF hit THEN 0 ELSE check_fetches(resps, 0)]
    /\ UNCHANGED <<txn, servers, members, messages, platform, running, sw, cmd, ul,
                   audit, settled>>

\* The verification call alone, under every answer of the character page.
NextVerify == \E name \in Names, gn \in GuildNames, resps \in AnswerSeqs :
                  Verify(name, gn, resps)

SpecVerify == Init /\ [][NextVerify]_vars

\* The verification call for two names and two external groups, in a
\* process whose memo is empty at the start.
InitMemo ==
    /\ servers = <<>>
    /\ members = {}
    /\ messages = {}
    /\ memo = [k \in MainNames \X MemoGuilds |-> "unset"]
    /\ platform = [m \in MsgIds |-> None]
    /\ running = "none"
    /\ sw = SwIdle
    /\ cmd = CmdIdle
    /\ ul = [t \in Tasks |-> UlOff]
    /\ audit = None
    /\ settled = [g \in Groups |-> FALSE]
    /\ verified = None
    /\ txn = None

NextMemo == \E name \in MainNames, gn \in MemoGuilds, resps \in AnswerSeqs :
                Verify(name, gn, resps)

SpecMemo == InitMemo /\ [][NextMemo]_vars

-----------------------------------------------------------------------------
(* Database.save_message_ids statement by statement, as the other           *)
(* connections to the database file see it (backup.py, a reader of any      *)
(* other process).  ok = FALSE makes the statement raise: the exception     *)
(* leaves save_message_ids before conn.commit(), the connection is dropped  *)
(* and SQLite rolls the open transaction back.                              *)

TxnOpen == txn # None /\ txn.pc = "open"

\* the call, up to its DELETE
TxnBegin(server_id, message_ids, ok) ==
    /\ running = "none"
    /\ ~TxnOpen
    /\ LET work == delete_messages(messages, server_id)
       IN  IF ok
           THEN /\ txn' = [pc |-> "open", server_id |-> server_id,
                           old |-> get_message_ids(messages, server_id),
                           new |-> message_ids, rows |-> work, k |-> 0]
                /\ messages' = AfterStatement(messages, work)
           ELSE /\ txn' = [pc |-> "failed", server_id |-> server_id,
                           old |-> get_message_ids(messages, server_id),
                           new |-> message_ids, rows |-> messages, k |-> 0]
                /\ messages' = messages
    /\ UNCHANGED <<servers, members, memo, platform, running, sw, cmd, ul,
                   audit, settled, verified>>

\* one turn of `for idx, msg_id in enumerate(message_ids)`
TxnInsert(ok) ==
    /\ TxnOpen
    /\ txn.k < Len(txn.new)
    /\ LET msg_id == txn.new[txn.k + 1]
           work == insert_message(txn.rows, txn.server_id, msg_id, txn.k)
       IN  IF ok /\ ~DuplicateKey(txn.rows, txn.server_id, msg_id)
           THEN /\ txn' = [txn EXCEPT !.rows = work, !.k = txn.k + 1]
                /\ messages' = AfterStatement(messages, work)
           ELSE /\ txn' = [txn EXCEPT !.pc = "failed"]
                /\ messages' = messages
    /\ UNCHANGED <<servers, members, memo, platform, running, sw, cmd, ul,
                   audit, settled, verified>>

\* conn.commit()
TxnCommit(ok) ==
    /\ TxnOpen
    /\ txn.k = Len(txn.new)
    /\ IF ok
       THEN /\ txn' = [txn EXCEPT !.pc = "committed"]
            /\ messages' = txn.rows
       ELSE /\ txn' = [txn EXCEPT !.pc = "failed"]
            /\ messages' = messages
    /\ UNCHANGED <<servers, members, memo, platform, running, sw, cmd, ul,
                   audit, settled, verified>>

\* the id lists a caller can pass
IdSeqs == UNION {[1..n -> MsgIds] : n \in 0..(MaxMsgs - 1)}

NextTxn ==
    \/ \E g \in MainGroups, ids \in IdSeqs, ok \in BOOLEAN : TxnBegin(g, ids, ok)
    \/ \E ok \in BOOLEAN : TxnInsert(ok)
    \/ \E ok \in BOOLEAN : TxnCommit(ok)

SpecTxn == Init /\ [][NextTxn]_vars

-----------------------------------------------------------------------------
(* DiscordUtils.create_list_embeds on its own: rosters of every size up to  *)
(* MaxRoster, under the layout constants of the model and of the source.    *)

Layouts == {<<MEMBERS_PER_FIELD, MAX_FIELDS_PER_EMBED>>,
            <<SOURCE_MEMBERS_PER_FIELD, SOURCE_FIELDS_PER_EMBED>>}

\* the roster of n members in the order get_members returns; the member at
\* position i is written i
Roster(n) == [i \in 1..n |-> i]

Render(n, layout) ==
    /\ running = "none"
    /\ verified' = [by |-> "create_list_embeds", n |-> n,
                    per_field |-> layout[1], per_embed |-> layout[2],
                    embeds |-> ListEmbeds("guild", Roster(n), layout[1], layout[2])]
    /\ UNCHANGED <<txn, servers, members, messages, memo, platform, running,
                   sw, cmd, ul, audit, settled>>

NextRender == \E n \in 0..MaxRoster, layout \in Layouts : Render(n, layout)

SpecRender == Init /\ [][NextRender]_vars

-----------------------------------------------------------------------------
(* Properties of the display synchronizer *)

\* a pass of task t has just stored its id list
Saved(t) == ul[t].pc = "done" /\ ul[t].outcome = "saved"

\* C1: after a synchronize pass that reached the persist step, the stored
\* display-message-id list of the group is as long as the list of pages the
\* pass rendered, whatever the platform answered to the page operations.
C1_StoredLengthIsPageCount ==
    \A t \in Tasks :
        Saved(t) => Len(get_message_ids(messages, ul[t].server_id))
                      = Len(ul[t].embeds)

\* C2: after a completed pass the id stored at index i is the id of the
\* message that shows page i; a failed page does not move the ids of later
\* pages to a lower index.
C2_StoredIndexIsPageNumber ==
    \A t \in Tasks :
        Saved(t) =>
            LET stored == get_message_ids(messages, ul[t].server_id)
            IN  \A i \in 1..Len(stored) :
                    platform[stored[i]] # None
                        => /\ i <= Len(ul[t].embeds)
                           /\ platform[stored[i]] = ul[t].embeds[i]

\* C3: a pass that follows a completed pass of the same group with the
\* roster and the configuration unchanged, and whose platform calls all
\* succeed, creates no message and deletes none.
C3_SecondPassOnlyEdits ==
    \A t \in Tasks :
        (Saved(t) /\ ul[t].fresh /\ ul[t].seen \subseteq {"ok"})
            => ul[t].sent = 0 /\ ul[t].deleted = 0

\* C4: after a rate-limit answer on page i the pass attempts page i again
\* before any later page.
C4_RateLimitedPageIsNext ==
    \A t \in Tasks :
        (/\ ul[t].last # None
         /\ ul[t].last.op = "page"
         /\ ul[t].last.outcome = "ratelimited")
            => ul[t].idx = ul[t].last.idx

\* C5: when a pass completes without a hard error on a delete, every
\* previously stored id at an index >= the new page count is gone from the
\* platform: deleted, or found already gone, a rate-limited delete having
\* been attempted again.
C5_SurplusIsDeleted ==
    \A t \in Tasks :
        (Saved(t) /\ "error" \notin ul[t].seen)
            => \A i \in 1..Len(ul[t].existing_message_ids) :
                   i > Len(ul[t].embeds)
                       => platform[ul[t].existing_message_ids[i]] = None

-----------------------------------------------------------------------------
(* Properties of the sweep *)

\* C6: the sweep triggers update_list for every group whose members it
\* checked or removed, not only for the last group of its loop.
C6_EveryProcessedGroupIsSynced ==
    sw.pc = "update_list" => sw.processed \subseteq {ul["sweep"].server_id}

\* the last step was a check of the sweep that failed for a member of a group
\* whose auto-remove flag the sweep read as set, and the store took the call
SweepRemovalCase ==
    /\ verified # None
    /\ verified.by = "sweep"
    /\ ~Truthy(verified.value)
    /\ verified.autoremove
    /\ verified.store_ok

\* the step renders the pages of a pass of task t
Renders(t) ==
    /\ ul[t].pc = "begin"
    /\ ul'[t].pc \in {"pages", "deletes", "save"}

\* C7: when a check of the sweep fails for a member of a group with
\* auto-remove set, the step deletes the member from the store and calls
\* log_action with the Auto-removed entry; and every pass renders its pages
\* from the rows the store holds at that moment, so the removed member is on
\* no page of the next pass.
C7_FailedCheckRemoves ==
    [][/\ SweepRemovalCase' =>
              /\ ~member_exists(members', verified'.server_id, verified'.name)
              /\ audit' = [server_id |-> verified'.server_id,
                           action |-> "Auto-removed",
                           name |-> verified'.name]
       /\ \A t \in Tasks :
              Renders(t) =>
                  \A i \in 1..Len(ul'[t].embeds) :
                      \A name \in EmbedNames(ul'[t].embeds[i]) :
                          member_exists(members', ul[t].server_id, name)
      ]_vars

\* a check of the sweep has just removed a member
C7_Witness ==
    /\ SweepRemovalCase
    /\ audit # None
    /\ audit.action = "Auto-removed"
    /\ ~member_exists(members, verified.server_id, verified.name)

\* C9: for every group the sweep processes, the selection has exactly
\* min(CHECK_LIMIT, number of members of the group) members, and no member
\* left out has a last_checked smaller than that of a selected member.
C9_SelectionIsOldestBatch ==
    (/\ running = "sweep"
     /\ sw.pc \in {"members", "servers"}
     /\ sw.config # None
     /\ Configured(sw.server_id))
        => LET rows == MemberRows(members, sw.server_id)
               selected == {r \in rows : r.name \in Range(sw.names)}
           IN  /\ Len(sw.names) = Min(CHECK_LIMIT, Cardinality(rows))
               /\ Cardinality(selected) = Len(sw.names)
               /\ \A r \in rows \ selected : \A q \in selected :
                      q.last_checked <= r.last_checked

\* the sweep has selected its batch from a group with more members than the
\* batch holds
C9_Witness ==
    /\ running = "sweep"
    /\ sw.pc = "members"
    /\ Len(sw.names) = CHECK_LIMIT
    /\ Cardinality(MemberRows(members, sw.server_id)) > CHECK_LIMIT

\* the newest row of its server: no other row has its timestamp or a later one
Newest(mem, r) ==
    \A q \in MemberRows(mem, r.server_id) : q # r => q.last_checked < r.last_checked

\* C8: a member whose verification fails while auto-remove is disabled stays
\* in the store with last_checked advanced to the time of the check, so it
\* is the newest row of its group.
C8_FailedCheckAdvancesStamp ==
    (/\ verified # None
     /\ verified.store_ok
     /\ ~Truthy(verified.value)
     /\ ~verified.autoremove)
        => \E r \in members :
               /\ r.server_id = verified.server_id
               /\ r.normalized_name = Lower(verified.name)
               /\ Newest(members, r)
InRoster(k) == member_exists(members, 1, k)

\* the last step was a check of the sweep on member k
CheckedBySweep(k) ==
    /\ verified # None
    /\ verified.by = "sweep"
    /\ verified.name = k

\* C10: on a server that stays enabled for the sweep, with the timer firing
\* again and again, every member that stays in the roster is checked again by
\* some later sweep, also when member turns end in the except branch.
C10_EveryMemberIsCheckedAgain ==
    \A k \in MainNames : InRoster(k) ~> (CheckedBySweep(k) \/ ~InRoster(k))

-----------------------------------------------------------------------------
(* Error handling of the sweep *)

\* the last step was a member turn of the sweep whose store call raised
FailedTurn ==
    /\ verified # None
    /\ verified.by = "sweep"
    /\ ~verified.store_ok

C12_SweepTaskNeverStops == sw.pc # "stopped"

\* C14: a failure to load the configuration of one group, or a store failure
\* while the group is processed, ends the processing of that group only: the
\* sweep leaves its loops only when no other due group is left to visit.
C14_OtherGroupsStillProcessed ==
    [][(sw.pc \in {"servers", "members"} /\ sw'.pc \notin {"servers", "members"})
           => (sw.todo = <<>> \/ Tail(sw.todo) = <<>>)
      ]_vars

\* C13: a platform error on one page other than rate limit and not-found,
\* the failure of the create issued after an edit found its message gone
\* included, leaves the pass running: it is not ended before its remaining
\* pages, its deletions and its save.
C13_PageErrorIsLocal ==
    \A t \in Tasks :
        (/\ ul[t].last # None
         /\ ul[t].last.op = "page"
         /\ ul[t].last.outcome \in {"error", "notfound"})
            => ul[t].outcome # "raised"

-----------------------------------------------------------------------------
(* Properties of the verification call *)

\* C15: one call fetches at most MAX_RETRIES times; every fetch but the last
\* was answered with a rate limit; when the last fetch is rate-limited too,
\* the attempts are used up and the call reports a failed verification; any
\* other error reports a failed verification at once.
C15_RetryCap ==
    (verified # None /\ verified.by = "check_aqw_guild" /\ ~verified.hit)
        => LET r == verified.resps
               n == verified.fetched
           IN  /\ n >= 1 /\ n <= MAX_RETRIES
               /\ \A i \in 1..(n - 1) : r[i] = "http429"
               /\ r[n] = "http429" => (n = MAX_RETRIES /\ ~Truthy(verified.value))
               /\ r[n] = "error" => ~Truthy(verified.value)
               /\ r[n] = "nonmember" => ~Truthy(verified.value)
               /\ r[n] = "member" => Truthy(verified.value)

\* a call whose every attempt was rate-limited, with a further answer that
\* would have said member
C15_Witness ==
    /\ verified # None
    /\ verified.by = "check_aqw_guild"
    /\ ~verified.hit
    /\ verified.fetched = MAX_RETRIES
    /\ \A i \in 1..MAX_RETRIES : verified.resps[i] = "http429"
    /\ verified.resps[MAX_RETRIES + 1] = "member"
    /\ ~Truthy(verified.value)

-----------------------------------------------------------------------------
(* Properties of the message store *)

\* C16: a reader of the id list of a group never finds a list that is
\* neither the old one nor the new one: it reads the old list while
\* save_message_ids works and after a failed call, and the new list once the
\* call has committed.
C16_ReplacementIsAtomic ==
    txn # None =>
        LET read == get_message_ids(messages, txn.server_id)
        IN  /\ txn.pc \in {"open", "failed"} => read = txn.old
            /\ txn.pc = "committed" => read = txn.new

\* a call that replaces a stored list of two ids has run its DELETE and one
\* of its two INSERTs
C16_Witness ==
    /\ TxnOpen
    /\ Len(txn.old) = 2
    /\ Len(txn.new) = 2
    /\ txn.k = 1
    /\ txn.new # txn.old

Max(a, b) == IF a > b THEN a ELSE b

\* C17: a pass in which every platform call succeeds, with p stored ids and n
\* rendered pages, edits the first min(p, n) stored messages, creates
\* max(n - p, 0) messages, deletes max(p - n, 0) messages and stores n ids.
C17_OperationCounts ==
    \A t \in Tasks :
        (Saved(t) /\ ul[t].seen \subseteq {"ok"})
            => LET p == Len(ul[t].existing_message_ids)
                   n == Len(ul[t].embeds)
                   stored == get_message_ids(messages, ul[t].server_id)
               IN  /\ ul[t].sent = Max(n - p, 0)
                   /\ ul[t].deleted = Max(p - n, 0)
                   /\ Len(stored) = n
                   /\ \A i \in 1..Min(p, n) :
                          stored[i] = ul[t].existing_message_ids[i]
                   /\ \A i \in (p + 1)..n :
                          stored[i] \notin Range(ul[t].existing_message_ids)
                   /\ \A i \in (n + 1)..p :
                          platform[ul[t].existing_message_ids[i]] = None

\* a pass over two stored messages has shrunk the list to one page: one
\* edit, one delete
C17_Witness ==
    /\ Saved("cmd")
    /\ ul["cmd"].seen = {"ok"}
    /\ Len(ul["cmd"].existing_message_ids) = 2
    /\ Len(ul["cmd"].embeds) = 1
    /\ ul["cmd"].deleted = 1

\* C18: when the message stored for page i is gone from the platform, the
\* pass creates a new message for the page, and the id of that message, not
\* the stale one, is the id at index i of the list the pass will store.
C18_GoneMessageIsReplacedInPlace ==
    \A t \in Tasks :
        (/\ ul[t].last # None
         /\ ul[t].last.op = "page"
         /\ ul[t].last.outcome = "notfound"
         /\ ul[t].last.idx < Len(ul[t].existing_message_ids)
         /\ ul[t].outcome # "raised")
            => LET i == ul[t].last.idx + 1
               IN  /\ Len(ul[t].new_message_ids) = i
                   /\ ul[t].new_message_ids[i] \notin Range(ul[t].existing_message_ids)

-----------------------------------------------------------------------------
(* Properties of the rendering *)

Rendered == verified # None /\ verified.by = "create_list_embeds"

\* the members an embed shows, column after column
RECURSIVE PageMembers(_, _)
PageMembers(fields, f) ==
    IF f > Len(fields) THEN <<>>
    ELSE [j \in 1..Len(fields[f].value) |-> fields[f].value[j][2]]
         \o PageMembers(fields, f + 1)

CeilDiv(a, b) == (a + b - 1) \div b

\* C19: a roster of N members is rendered on ceil(N / pageCapacity) pages,
\* pageCapacity = MEMBERS_PER_FIELD * MAX_FIELDS_PER_EMBED; every page but
\* the last holds pageCapacity members, the last holds the rest, and the
\* pages hold the roster in order.
C19_PageCount ==
    Rendered =>
        LET cap == verified.per_field * verified.per_embed
            pages == Len(verified.embeds)
        IN  /\ pages = CeilDiv(verified.n, cap)
            /\ \A k \in 1..pages :
                   LET shown == PageMembers(verified.embeds[k].fields, 1)
                       first == (k - 1) * cap
                   IN  /\ Len(shown) = IF k < pages THEN cap
                                       ELSE verified.n - first
                       /\ \A j \in 1..Len(shown) : shown[j] = first + j

\* 100 members under the layout of the source: pages of 45, 45 and 10
C19_Witness ==
    /\ Rendered
    /\ verified.n = 100
    /\ verified.per_field = SOURCE_MEMBERS_PER_FIELD
    /\ verified.per_embed = SOURCE_FIELDS_PER_EMBED
    /\ Len(verified.embeds) = 3
    /\ Len(PageMembers(verified.embeds[1].fields, 1)) = 45
    /\ Len(PageMembers(verified.embeds[2].fields, 1)) = 45
    /\ Len(PageMembers(verified.embeds[3].fields, 1)) = 10

\* C20: on every rendered page with m members the columns have
\* ceil(m / MAX_FIELDS_PER_EMBED) members each, the last one the rest, and
\* the members fill the columns in order.
C20_ColumnSize ==
    Rendered =>
        \A k \in 1..Len(verified.embeds) :
            LET fields == verified.embeds[k].fields
                m == Len(PageMembers(fields, 1))
                size == CeilDiv(m, verified.per_embed)
            IN  /\ Len(fields) = CeilDiv(m, size)
                /\ \A f \in 1..Len(fields) :
                       Len(fields[f].value) = Min(size, m - (f - 1) * size)

\* the last_checked of the row of name in the server's roster
Stamp(mem, server_id, name) ==
    LET row == CHOOSE r \in MemberRows(mem, server_id) : r.name = name
    IN  row.last_checked

\* C21: the batch of a server is taken in ascending last_checked order and
\* its members are verified one by one in the order of the batch; a pass
\* handles page 0, then page 1, and so on, one page per platform call, and
\* issues no page call once it has issued a delete of a surplus message.
C21_SweepAndPagesInOrder ==
    [][/\ (sw.pc = "servers" /\ sw'.pc = "members") =>
              \A i, j \in 1..Len(sw'.names) :
                  i < j => Stamp(members, sw'.server_id, sw'.names[i])
                             <= Stamp(members, sw'.server_id, sw'.names[j])
       /\ (sw.pc = "members" /\ sw' # sw) =>
              /\ verified' # None
              /\ verified'.name = Head(sw.names)
              /\ sw'.names = Tail(sw.names)
       /\ \A t \in Tasks :
              (ul'[t].last # None /\ ul'[t].last # ul[t].last) =>
                  IF ul'[t].last.op = "page"
                  THEN /\ ul'[t].last.idx =
                             IF ul[t].last = None THEN 0 ELSE ul[t].last.idx + 1
                       /\ ul[t].last # None => ul[t].last.op = "page"
                  ELSE ul[t].idx = Len(ul[t].embeds)]_vars

\* the sweep took a batch of two members at a server, and its pass has
\* handled a page and then deleted a surplus message
C21_Witness ==
    /\ sw.total_checked >= 3
    /\ ul["sweep"].last # None
    /\ ul["sweep"].last.op = "delete"
    /\ ul["sweep"].idx >= 1

\* C22: the surplus messages of a pass are deleted from the end of the old
\* id list: the first delete is that of the last old index, and every
\* further delete is that of the index just below the one deleted before.
C22_DeletesFromTheEnd ==
    [][\A t \in Tasks :
          (/\ ul'[t].last # None
           /\ ul'[t].last # ul[t].last
           /\ ul'[t].last.op = "delete") =>
              ul'[t].last.idx =
                  IF ul[t].last # None /\ ul[t].last.op = "delete"
                  THEN ul[t].last.idx - 1
                  ELSE Len(ul[t].existing_message_ids) - 1]_vars

\* two names that differ at most in the case of their letters
SameLetters(x, y) == x = y \/ {x, y} = {"A", "a"}

\* no group holds two records whose names differ at most in case
UniqueKeys(mem) ==
    \A r, q \in mem :
        (r.server_id = q.server_id /\ SameLetters(r.name, q.name)) => r = q

\* a turn of the loop of -add for a name the group already holds, in
\* whatever case
AddOfHeldName ==
    /\ cmd.pc = "add"
    /\ cmd.names # <<>>
    /\ cmd' # cmd
    /\ \E r \in MemberRows(members, cmd.server_id) :
           SameLetters(r.name, Head(cmd.names))

\* C23 as stated: no group ever holds two records with the same case-folded
\* name, and -add of a name the group holds in another case leaves the
\* records of the group as they are.
C23_AddLeavesHeldRecord ==
    /\ []UniqueKeys(members)
    /\ [][AddOfHeldName => members' = members]_vars

\* C23, amended: no group ever holds two records with the same case-folded
\* name; -add of a name the group holds creates no record, and it leaves the
\* records as they are unless the name fails verification while auto-remove
\* is on, in which case -add removes the record.
C23_AddCreatesNoSecondRecord ==
    /\ []UniqueKeys(members)
    /\ [][AddOfHeldName =>
             \/ members' = members
             \/ /\ audit'.action = "Auto-removed"
                /\ cmd.config.autoremove
                /\ members' = Normalize(remove_member(members, cmd.server_id,
                                                      Head(cmd.names)))]_vars

\* -add A has been handled while the group held a, and the record of a is
\* the only one
C23_Witness ==
    /\ audit # None
    /\ audit.action = "Duplicate entry"
    /\ audit.name = "A"
    /\ \E r \in members : r.name = "a"

\* C24: a call of check_aqw_guild stores its result under the pair (name,
\* external group name) and under no other; a later call with a pair that
\* has a stored result issues no request and returns the stored result,
\* whether that is true, false or the None of a failed verification.
C24_MemoOnFullTuple ==
    [][(verified' # None /\ verified'.by = "check_aqw_guild") =>
          LET k == <<verified'.name, verified'.aqw_guild_name>>
          IN  /\ memo[k] # "unset" =>
                     /\ verified'.fetched = 0
                     /\ verified'.value = memo[k]
              /\ memo'[k] = verified'.value
              /\ \A j \in DOMAIN memo \ {k} : memo'[j] = memo[j]]_vars

\* a call answered from the memo with the None of a failed verification,
\* where the character page would now say member, while the same name has
\* another result stored for the other external group
C24_Witness ==
    /\ verified # None
    /\ verified.by = "check_aqw_guild"
    /\ verified.hit
    /\ verified.value = "none"
    /\ verified.resps[1] = "member"
    /\ \E gn \in MemoGuilds : memo[<<verified.name, gn>>] = "true"

\* C25: in the first sweep after a restart that interrupted a sweep, the
\* batch of a group holds no member that the interrupted sweep had checked
\* and kept ahead of, or in place of, a member of the group that it had not:
\* every such member stands earlier in the batch.  Only the last_checked
\* values of the store decide this.
C25_ResumesWithUncheckedFirst ==
    [][(sw.pc = "servers" /\ sw'.pc = "members" /\ sw.interrupted # {}) =>
          LET g == sw'.server_id
              sel == sw'.names
              roster == {r.name : r \in MemberRows(members, g)}
              done == {n \in roster : <<g, n>> \in sw.interrupted}
          IN  \A i \in 1..Len(sel) :
                  sel[i] \in done =>
                      \A u \in roster \ done :
                          \E j \in 1..(i - 1) : sel[j] = u]_vars

\* the sweep after the restart has taken a batch of two members of a group:
\* first the one the interrupted sweep had not reached, then the one it had
\* checked and kept
C25_Witness ==
    /\ sw.pc = "members"
    /\ Len(sw.names) = 2
    /\ <<sw.server_id, sw.names[1]>> \notin sw.interrupted
    /\ <<sw.server_id, sw.names[2]>> \in sw.interrupted

\* C26: after a pass has stored its id list, every message that stands in
\* the list channel (each was created by a pass of the group, and none of
\* them has been deleted) has its id in the stored list of the group, also
\* when page operations of the pass were answered with a rate limit or
\* another error.
C26_NoOrphanMessage ==
    Saved("cmd") =>
        \A m \in MsgIds :
            platform[m] # None =>
                m \in Range(get_message_ids(messages, ul["cmd"].server_id))

\* C27: when a pass that ran while another pass of the same group was under
\* way has stored its id list, and no pass of the group is under way any
\* more, the state is one that passes run one after the other leave: the
\* messages that stand in the list channel are exactly those of the stored
\* list, each stored once, and no message that either pass created is
\* missing from it.
C27_OverlapEndsAsSequential ==
    \A t \in Tasks :
        (/\ Saved(t)
         /\ ul[t].overlap
         /\ \A o \in Tasks \ {t} : ~Overlaps(ul[o], ul[t].server_id)) =>
            LET stored == get_message_ids(messages, ul[t].server_id)
            IN  /\ {m \in MsgIds : platform[m] # None} = Range(stored)
                /\ Cardinality(Range(stored)) = Len(stored)

\* C28: a turn of the sweep deletes a member only when the servers table
\* holds autoremove = 1 for the group at that moment; after the flag was
\* turned off while the sweep slept between two checks, the sweep removes
\* no further member of the group.
C28_RemovalNeedsStoredFlag ==
    [][(/\ sw.pc = "members"
        /\ member_exists(members, sw.server_id, Head(sw.names))
        /\ ~member_exists(members', sw.server_id, Head(sw.names)))
          => get_server_config(servers, sw.server_id).autoremove]_vars

\* the places <<page, column, row>> of the rendered list
Places(embeds) ==
    UNION {UNION {{<<k, f, j>> : j \in 1..Len(embeds[k].fields[f].value)}
                  : f \in 1..Len(embeds[k].fields)}
           : k \in 1..Len(embeds)}

\* C29: every member of a roster of N members stands at exactly one place
\* (one row of one column of one page) of the rendered list, and the label
\* printed at a place is the position, from 1, of its member in the order of
\* the roster, which is the order of get_members; no place shows anything
\* else.  This holds for every last-page fill from 1 to the page capacity.
C29_EveryMemberOnceWithItsPosition ==
    Rendered =>
        LET places == Places(verified.embeds)
            at(p) == verified.embeds[p[1]].fields[p[2]].value[p[3]]
        IN  /\ \A i \in 1..verified.n :
                   Cardinality({p \in places : at(p)[2] = i}) = 1
            /\ \A p \in places :
                   /\ at(p)[2] \in 1..verified.n
                   /\ at(p)[1] = at(p)[2]

\* 100 members under the layout of the source: the member at position 62
\* stands in the second page, at the head of its second column, with the
\* label 62
C29_Witness ==
    /\ Rendered
    /\ verified.n = 100
    /\ verified.per_field = SOURCE_MEMBERS_PER_FIELD
    /\ verified.per_embed = SOURCE_FIELDS_PER_EMBED
    /\ verified.embeds[2].fields[2].value[1] = <<62, 62>>

\* C30: every write of the store that changes the external group name of a
\* group leaves its autoremove at 0; a sweep takes at its start the groups
\* whose autoremove is 1 at that moment, and it removes members of these
\* groups only, so a sweep that starts after the change, while auto-remove
\* has not been turned on again, removes no member of the group.
C30_NameChangeStopsRemoval ==
    [][/\ \A g \in Groups :
              (/\ get_server_config(servers, g) # None
               /\ get_server_config(servers', g) # None
               /\ get_server_config(servers', g).guild_name
                     # get_server_config(servers, g).guild_name)
                  => ~get_server_config(servers', g).autoremove
       /\ (sw.pc = "idle" /\ sw'.pc = "servers") =>
              \A g \in Groups :
                  g \in Range(sw'.due) <=>
                      /\ get_server_config(servers, g) # None
                      /\ get_server_config(servers, g).autoremove
       /\ (/\ sw.pc = "members"
           /\ member_exists(members, sw.server_id, Head(sw.names))
           /\ ~member_exists(members', sw.server_id, Head(sw.names)))
              => sw.server_id \in Range(sw.due)
       /\ (sw.pc # "idle" /\ sw'.pc # "idle") => sw'.due = sw.due]_vars

\* the name of a group that holds members has been changed, auto-remove is
\* off since, and a sweep that started after the change has nothing to do
C30_Witness ==
    /\ get_server_config(servers, 1).guild_name = "other"
    /\ ~get_server_config(servers, 1).autoremove
    /\ MemberRows(members, 1) # {}
    /\ cmd.pc = "idle"
    /\ sw.pc = "servers"
    /\ sw.due = <<>>

====
